---- MODULE Spec2Model ----
(***************************************************************************)
(* A model of ResourceStream (src/src/resource-stream.ts): the pull-driven *)
(* pagination engine of @google-cloud/paginator.  The engine's fields, its *)
(* end() and _read() methods and the fetch handler are translated from the *)
(* source.  The handler is split at the points where control can leave it: *)
(* every push() may run the consumer's 'data' listener, which may call     *)
(* end() or read() before the loop goes on.  The readable side of the      *)
(* Transform base class (buffer, high-water mark, EOF, destroy, the        *)
(* 'error' channel) is modelled as far as the engine calls into it.        *)
(***************************************************************************)
EXTENDS Integers, Sequences, FiniteSets, TLC

\* ------------------------------------------------------------- bounds
MaxFetches == 3     \* fetches issued in one behaviour
MaxPage == 3        \* items in the longest page the fetch operation returns
MaxCap == 2         \* largest finite maxApiCalls / maxResults tried
MaxHwm == 2         \* largest highWaterMark tried

\* ------------------------------------------------------------- values
Infinity == 1000000

\* Queries are opaque to the engine.  Token(n) is the cursor the remote source
\* hands out with its n-th page, so that two pages never share a cursor.
NoQuery == <<"null">>         \* nextQuery absent, undefined or null
EmptyQuery == <<"{}">>        \* nextQuery present but an empty mapping
Token(n) == <<"q", n>>
InitialQuery == Token(0)
NextQueries(n) == {NoQuery, EmptyQuery, Token(n)}

\* the inputs tried
ApiCallCaps == {-1, 1, MaxCap}
ResultCaps == {-1, 0, 1, MaxCap}
HighWaterMarks == {1, MaxHwm}
PageLens == {0, 1, MaxPage}

NoError == "none"
Errors == {"e1"}

Min(a, b) == IF a < b THEN a ELSE b
Max(a, b) == IF a > b THEN a ELSE b

\* a truthiness test that takes an empty mapping for no cursor
TruthyNonEmpty(q) == q \notin {NoQuery, EmptyQuery}

\* JavaScript truthiness of a nextQuery value: null/undefined are falsy, any
\* object (also {}) is truthy.
Truthy(q) == q # NoQuery

\* The page the fetch operation returns on its n-th completed call: len items,
\* each tagged with the call and its position so that items are distinguishable.
Page(n, len) == [p \in 1..len |-> <<n, p>>]

\* ------------------------------------------------- call-site values
\* The values a caller passes: undefined, a primitive, a function or a mapping.
\* A mapping is held as its recognised keys, each absent (<<>>) or present
\* (<<v>>), with one key the paginator does not know ("other").
MaxArgs == 2          \* longest argument list tried
MaxResultsGiven == 10
PageSizeGiven == 5
MaxApiCallsGiven == 10
HighWaterMarkGiven == 8

Opt(vals) == {<<>>} \cup {<<v>> : v \in vals}
NoKeys ==
    [maxApiCalls |-> <<>>, maxResults |-> <<>>, pageSize |-> <<>>,
     autoPaginate |-> <<>>, highWaterMark |-> <<>>, other |-> <<>>]
KeySets ==
    [maxApiCalls : Opt({MaxApiCallsGiven}), maxResults : Opt({MaxResultsGiven}),
     pageSize : Opt({PageSizeGiven}), autoPaginate : Opt(BOOLEAN),
     highWaterMark : Opt({HighWaterMarkGiven}), other : Opt({"b"})]

Undefined == [kind |-> "undefined", id |-> 0, keys |-> NoKeys]
StringArg == [kind |-> "string", id |-> 0, keys |-> NoKeys]
Fn(n) == [kind |-> "function", id |-> n, keys |-> NoKeys]
Object(k) == [kind |-> "object", id |-> 0, keys |-> k]
Objects == {Object(k) : k \in KeySets}
Plain == {Undefined, StringArg, Fn(1), Fn(2)}
\* the argument lists tried: any first argument, then plain values
ArgListsOf(n) ==
    IF n = 0 THEN {<<>>}
    ELSE {<<x>> \o t : x \in Plain \cup Objects, t \in [1..(n - 1) -> Plain]}
ArgLists == UNION {ArgListsOf(n) : n \in 0..MaxArgs}
NotParsed == [parsed |-> FALSE]

\* What run_ and a streamified method hand back themselves: the promise of the
\* aggregated results, or the live stream.
PromiseValue == [kind |-> "promise", id |-> 2, keys |-> NoKeys]
StreamValue == [kind |-> "stream", id |-> 0, keys |-> NoKeys]

\* The methods of the class the adapters work on, by identity: the method the
\* class was written with, a method somebody stored under the private name
\* beforehand, and the function extend() puts in the method's place.
Original == "original"
Private == "private"
Replacement == "replacement"
Absent == "absent"
Receivers == {"obj1", "obj2"}
NoFetchOp == [fn |-> Absent, this |-> "none"]

VARIABLES
    ended,          \* _ended
    maxApiCalls,    \* _maxApiCalls
    nextQuery,      \* _nextQuery
    reading,        \* _reading
    requestsMade,   \* _requestsMade
    resultsToSend,  \* _resultsToSend
    maxResults,     \* args.maxResults, as given to the constructor
    hwm,            \* args.streamOptions.highWaterMark
    inflight,       \* calls of _requestFn whose handler has not completed yet
    inHandler,      \* the handler is running (between its first and last line)
    results,        \* handler local: results after the splice
    idx,            \* handler local: items of results the loop has passed
    more,           \* handler local: more
    listening,      \* a 'data' listener is running inside the last push()
    immediates,     \* callbacks scheduled by setImmediate, not yet run
    bufLen,         \* items in the readable buffer
    nodeReading,    \* readable state: _read() called, nothing pushed since
    eof,            \* readable state: push(null) done
    destroyed,      \* the stream is destroyed
    errors,         \* errors delivered on the stream's 'error' channel
    escaped,        \* exceptions that left _read() uncaught
    emitted,        \* items pushed downstream, in order
    fetchLog,       \* the query of every _requestFn call, in order
    handlerLog,     \* the arguments of every handler invocation, in order
    mode,           \* how the engine is consumed: "stream", or by run_ with a
                    \* callback ("callback") or without one ("promise")
    collected,      \* run_: the results array its 'data' listener fills
    completions,    \* run_: callback invocations / promise settlements, in order
    callArgs,       \* the argument list of one call of a paginated method
    parsed,         \* parseArguments_(callArgs), once computed
    ran,            \* run_ has been called with the parsed arguments
    manualCalls,    \* the calls of the original method run_ makes itself
    manualDone,     \* the next query each of those calls reported, in order
    engines,        \* the engines built through runAsStream_
    returned,       \* what the called method returned
    entry,          \* the method the caller calls: "paginated" (put in place by
                    \* extend) or "streamified" (made by streamify)
    proto,          \* the class: what it holds under name and under name_
    receiver,       \* the object the method is called on
    fetchOp         \* the fetch operation handed to run_ / runAsStream_

engine == <<ended, maxApiCalls, nextQuery, reading, requestsMade, resultsToSend>>
args == <<maxResults, hwm>>
local == <<results, idx, more>>
node == <<bufLen, nodeReading, eof, destroyed, errors>>
agg == <<mode, collected, completions>>
api == <<callArgs, parsed, ran, manualCalls, manualDone, engines, returned,
         entry, proto, receiver, fetchOp>>
vars == <<engine, args, local, node, inflight, inHandler, listening, immediates,
          escaped, emitted, fetchLog, handlerLog, agg, api>>

\* a constructor that takes the cap as it is given
CapAsGiven(n) == n

\* args.maxApiCalls === -1 ? Infinity : args.maxApiCalls (maxResults alike)
Unbounded(n) == IF n = -1 THEN Infinity ELSE n

\* constructor
EngineInit ==
    /\ ended = FALSE
    /\ \E n \in ApiCallCaps : maxApiCalls = Unbounded(n)
    /\ nextQuery = InitialQuery
    /\ reading = FALSE
    /\ requestsMade = 0
    /\ maxResults \in ResultCaps
    /\ resultsToSend = Unbounded(maxResults)
    /\ hwm \in HighWaterMarks
    /\ inflight = 0
    /\ inHandler = FALSE
    /\ results = <<>>
    /\ idx = 0
    /\ more = TRUE
    /\ listening = FALSE
    /\ immediates = 0
    /\ bufLen = 0
    /\ nodeReading = FALSE
    /\ eof = FALSE
    /\ destroyed = FALSE
    /\ errors = <<>>
    /\ escaped = 0
    /\ emitted = <<>>
    /\ fetchLog = <<>>
    /\ handlerLog = <<>>

\* No call of a paginated method is being parsed or run.
ApiIdle ==
    /\ callArgs = <<>>
    /\ parsed = NotParsed
    /\ ran = FALSE
    /\ manualCalls = <<>>
    /\ manualDone = <<>>
    /\ engines = 0
    /\ returned = Undefined
    /\ entry = "streamified"
    /\ proto = [name |-> Original, alias |-> Absent]
    /\ receiver = "obj1"
    /\ fetchOp = NoFetchOp

\* The engine as the streaming entry point hands it out: the caller consumes it.
Init ==
    /\ EngineInit
    /\ mode = "stream"
    /\ collected = <<>>
    /\ completions = <<>>
    /\ ApiIdle

\* ------------------------------------------------- the Transform base
\* destroy(err): the first call destroys the stream and reports err on the
\* 'error' channel; a destroyed stream ignores further calls.
Destroy(err) ==
    IF destroyed
    THEN UNCHANGED <<destroyed, errors>>
    ELSE /\ destroyed' = TRUE
         /\ errors' = Append(errors, err)

\* ------------------------------------------------- run_ (aggregating)
\* run_ with autoPaginate: it builds the engine, listens to its 'error', 'data'
\* and 'end' events and settles one promise, which it hands to the caller or,
\* with a callback in the descriptor, forwards to that callback.
AggModes == {"callback", "promise"}
Aggregating == mode \in AggModes

\* The values the fetch operation hands to the handler of its n-th completed
\* call after nextQuery (a raw response and one more value).
Extra(n) == <<<<"res", n>>, <<"arg", n>>>>

\* stream._otherArgs as run_ reads it on 'end': the engine has no such field and
\* its handler takes (err, results, nextQuery) only, so run_ finds nothing.
OtherArgs == <<>>

\* a 'data' listener that keeps the last item only
DataListenerLast(items) == items

\* .on('data', data => results.push(data))
DataListener(items) == collected \o items

\* A promise settles once; what it settles with goes to the callback (callback
\* style) or to the caller of run_ (promise style).
Settle(c) == IF completions = <<>> THEN <<c>> ELSE completions

\* .on('error', ...): the error alone
Failure(err) == [style |-> mode, err |-> err, results |-> <<>>, rest |-> <<>>]

\* .on('end', ...): the results, then the descriptor's query, then the
\* stream's trailing arguments
Success(res) ==
    [style |-> mode, err |-> NoError, results |-> res,
     rest |-> <<InitialQuery>> \o OtherArgs]

\* The listeners of run_ in one step of the stream: items are the items handed
\* to 'data' listeners in this step, endEvent says that 'end' is emitted in it,
\* an 'error' is emitted when the stream is destroyed with an error.
Listeners(items, endEvent) ==
    /\ mode' = mode
    /\ collected' = IF Aggregating THEN DataListener(items) ELSE collected
    /\ completions' =
          IF ~Aggregating THEN completions
          ELSE IF Len(errors') > Len(errors)
          THEN Settle(Failure(errors'[Len(errors')]))
          ELSE IF endEvent THEN Settle(Success(collected'))
          ELSE completions

\* ------------------------------------------------------------- end()
\* an end() that flips the flag instead of setting it
EndToggles ==
    /\ ended' = ~ended
    /\ eof' = IF destroyed THEN eof ELSE TRUE

\* end(...args) { this._ended = true; return super.end(...args); }
\* super.end() finishes the writable side, whose flush does push(null): the
\* readable side is at EOF from then on (nothing happens on a destroyed stream).
End ==
    /\ ended' = TRUE
    /\ eof' = IF destroyed THEN eof ELSE TRUE

\* The consumer calls end(): from its own code between two callbacks, or from a
\* 'data' listener while the handler's loop is inside push().
ConsumerEnd ==
    /\ ~inHandler \/ listening
    /\ End
    /\ nodeReading' = IF destroyed THEN nodeReading ELSE FALSE
    /\ UNCHANGED <<maxApiCalls, nextQuery, reading, requestsMade, resultsToSend,
                   args, local, bufLen, destroyed, errors, inflight, inHandler,
                   listening, immediates, escaped, emitted, fetchLog, handlerLog,
                   agg, api>>

\* ------------------------------------------------------------- _read()
\* a _read() without its guard
ReadGuardOff == FALSE

\* if (this._reading) return;
ReadGuard == reading

\* _read() up to the call of _requestFn.  threw: the fetch operation raised
\* instead of taking the handler; the exception leaves _read() past the
\* assignment of _reading.
ReadBody(threw) ==
    IF ReadGuard
    THEN UNCHANGED <<reading, fetchLog, inflight>>
    ELSE /\ reading' = TRUE
         /\ fetchLog' = Append(fetchLog, nextQuery)
         /\ inflight' = IF threw THEN inflight ELSE inflight + 1

\* The readable side calls _read(): the consumer reads or resumes, the stream is
\* not at EOF, not destroyed, no _read() is pending on the readable side and
\* the buffer is below the high-water mark.  Readable.read() catches what
\* _read() throws and destroys the stream with it.
NodeRead ==
    /\ ~inHandler \/ listening
    /\ ~eof /\ ~destroyed /\ ~nodeReading
    /\ bufLen < hwm
    /\ Len(fetchLog) < MaxFetches
    /\ \E threw \in BOOLEAN :
          /\ ReadBody(threw)
          /\ IF threw /\ ~ReadGuard
             THEN Destroy("thrown")
             ELSE UNCHANGED <<destroyed, errors>>
    /\ nodeReading' = TRUE
    /\ UNCHANGED <<ended, maxApiCalls, nextQuery, requestsMade, resultsToSend,
                   args, local, bufLen, eof, inHandler, listening, immediates,
                   escaped, emitted, handlerLog>>
    /\ UNCHANGED api
    /\ Listeners(<<>>, FALSE)

\* setImmediate(() => this._read()): the deferred pull calls _read() directly;
\* what _read() throws is caught by nobody.
DeferredRead ==
    /\ ~inHandler
    /\ immediates > 0
    /\ Len(fetchLog) < MaxFetches
    /\ immediates' = immediates - 1
    /\ \E threw \in BOOLEAN :
          /\ ReadBody(threw)
          /\ escaped' = IF threw /\ ~ReadGuard THEN escaped + 1 ELSE escaped
    /\ UNCHANGED <<ended, maxApiCalls, nextQuery, requestsMade, resultsToSend,
                   args, local, node, inHandler, listening, emitted, handlerLog,
                   agg, api>>

\* ------------------------------------------------------- the handler
\* a handler that forgets to truncate the page
SpliceAll(res, n) == res

\* results.splice(0, n): the first n items (none for n <= 0).
Splice(res, n) == SubSeq(res, 1, Min(Len(res), Max(n, 0)))

\* a handler that keeps its old cursor
CursorKept(nq) == nextQuery

\* this._nextQuery = nextQuery;
CursorAfter(nq) == nq

\* a handler that returns on an error without destroying the stream
ErrorSwallowed(err) == UNCHANGED <<destroyed, errors>>

\* a handler that keeps an error to itself once the stream is ended
ErrorDroppedAfterEnd(err) ==
    IF err # NoError /\ ~ended
    THEN Destroy(err)
    ELSE UNCHANGED <<destroyed, errors>>

\* if (err) { this.destroy(err); ... }
OnError(err) ==
    IF err # NoError
    THEN Destroy(err)
    ELSE UNCHANGED <<destroyed, errors>>

\* a handler that goes on with the page after an error
ErrorProcessed(err) == FALSE

\* if (err) { ...; return; }
ErrorReturns(err) == err # NoError

\* an error branch that releases the reading guard before it returns
ReadingClearedOnError == FALSE

\* The error branch returns before the handler's last line: _reading is left
\* as the fetch set it.
ReadingAfterError == reading

\* a handler that waits for a push to say that more is wanted
MoreStartsFalse == FALSE

\* let more = true; (before the loop)
MoreAtStart == TRUE

\* a handler that splices the page and forgets to charge the budget
BudgetKept(n, sent) == n

\* this._resultsToSend -= results.length; (after the splice)
BudgetAfter(n, sent) == n - sent

\* The handler up to the loop: (err, results, nextQuery) of the fetch in flight.
HandlerStart ==
    /\ ~inHandler
    /\ inflight > 0
    /\ \E err \in Errors \cup {NoError}, len \in PageLens,
          nq \in NextQueries(Len(handlerLog) + 1) :
         LET page == Page(Len(handlerLog) + 1, len) IN
         /\ handlerLog' = Append(handlerLog,
                               [err |-> err, results |-> page, nextQuery |-> nq,
                                extra |-> Extra(Len(handlerLog) + 1)])
         /\ OnError(err)
         /\ IF ErrorReturns(err)
            THEN /\ inflight' = inflight - 1
                 /\ reading' = ReadingAfterError
                 /\ UNCHANGED <<nextQuery, resultsToSend, local, inHandler>>
            ELSE /\ nextQuery' = CursorAfter(nq)
                 /\ IF resultsToSend # Infinity
                    THEN /\ results' = Splice(page, resultsToSend)
                         /\ resultsToSend' = BudgetAfter(resultsToSend, Len(results'))
                    ELSE /\ results' = page
                         /\ UNCHANGED resultsToSend
                 /\ more' = MoreAtStart
                 /\ idx' = 0
                 /\ inHandler' = TRUE
                 /\ UNCHANGED <<inflight, reading>>
    /\ UNCHANGED <<ended, maxApiCalls, requestsMade, args, bufLen,
                   nodeReading, eof, listening, immediates, escaped, emitted,
                   fetchLog>>
    /\ UNCHANGED api
    /\ Listeners(<<>>, FALSE)

\* a loop that does not look at _ended
LoopIgnoresEnded == idx < Len(results)

\* for (const result of results) { if (this._ended) break; ... }
LoopGoesOn == idx < Len(results) /\ ~ended

\* a loop that walks the page from its end
NextItemFromEnd == results[Len(results) - idx]

\* the item the loop pushes next
NextItem == results[idx + 1]

\* more = this.push(result): one turn of the loop.  A destroyed stream takes
\* nothing; after EOF the push is an error; otherwise the item is handed to a
\* flowing consumer at once (its 'data' listener runs inside push) or is
\* buffered, and push reports whether the buffer is below the high-water mark.
EmitStep ==
    /\ inHandler
    /\ LoopGoesOn
    /\ idx' = idx + 1
    /\ UNCHANGED results
    /\ IF destroyed
       THEN /\ more' = FALSE
            /\ listening' = FALSE
            /\ UNCHANGED <<emitted, node>>
       ELSE IF eof
       THEN /\ Destroy("ERR_STREAM_PUSH_AFTER_EOF")
            /\ more' = FALSE
            /\ listening' = FALSE
            /\ UNCHANGED <<emitted, bufLen, nodeReading, eof>>
       ELSE /\ emitted' = Append(emitted, NextItem)
            /\ nodeReading' = FALSE
            /\ UNCHANGED <<eof, destroyed, errors>>
            /\ \/ /\ bufLen = 0
                  /\ listening' = TRUE
                  /\ more' = TRUE
                  /\ UNCHANGED bufLen
               \/ /\ listening' = FALSE
                  /\ bufLen' = bufLen + 1
                  /\ more' = (bufLen' < hwm)
    /\ UNCHANGED <<engine, args, inflight, inHandler, immediates, escaped,
                   fetchLog, handlerLog>>
    /\ UNCHANGED api
    /\ Listeners(IF listening' THEN <<NextItem>> ELSE <<>>, FALSE)

\* const isFinished = !this._nextQuery || this._resultsToSend < 1;
IsFinished == ~Truthy(nextQuery) \/ resultsToSend < 1

\* a handler that does not count its request
RequestsNotCounted == requestsMade

\* ++this._requestsMade
RequestsAfterHandler == requestsMade + 1

\* a made-max-calls test that looks at the counter before its increment
MadeMaxCallsLate == requestsMade >= maxApiCalls

\* const madeMaxCalls = ++this._requestsMade >= this._maxApiCalls;
MadeMaxCalls == requestsMade + 1 >= maxApiCalls

\* a handler that leaves the reading guard set
ReadingKept == reading

\* this._reading = false; (the handler's last line)
ReadingAfterHandler == FALSE

\* a handler that never schedules the deferred pull
SchedulesNever(endedNow) == FALSE

\* if (more && !this._ended) after the possible end()
SchedulesNext(endedNow) == more /\ ~endedNow

\* The handler after the loop: the termination test, the deferred pull and the
\* release of the reading guard.
HandlerFinish ==
    /\ inHandler
    /\ ~LoopGoesOn
    /\ requestsMade' = RequestsAfterHandler
    /\ IF IsFinished \/ MadeMaxCalls
       THEN /\ End
            /\ nodeReading' = IF destroyed THEN nodeReading ELSE FALSE
       ELSE UNCHANGED <<ended, eof, nodeReading>>
    /\ immediates' = IF SchedulesNext(ended') THEN immediates + 1 ELSE immediates
    /\ reading' = ReadingAfterHandler
    /\ inflight' = inflight - 1
    /\ inHandler' = FALSE
    /\ listening' = FALSE
    /\ UNCHANGED <<maxApiCalls, nextQuery, resultsToSend, args, local, bufLen,
                   destroyed, errors, escaped, emitted, fetchLog, handlerLog,
                   agg, api>>

\* ------------------------------------------------------- the consumer
\* The consumer takes one buffered item: the oldest one.
Drain ==
    /\ ~inHandler
    /\ ~destroyed
    /\ bufLen > 0
    /\ bufLen' = bufLen - 1
    /\ UNCHANGED <<engine, args, local, nodeReading, eof, destroyed, errors,
                   inflight, inHandler, listening, immediates, escaped, emitted,
                   fetchLog, handlerLog>>
    /\ UNCHANGED api
    /\ Listeners(<<emitted[Len(emitted) - bufLen + 1]>>, FALSE)

\* autoDestroy (the default of the options passed to super): once the stream
\* has ended and its buffer is consumed, it emits 'end' and destroys itself
\* without an error.
AutoDestroy ==
    /\ ~inHandler
    /\ eof /\ bufLen = 0 /\ ~destroyed
    /\ destroyed' = TRUE
    /\ UNCHANGED <<engine, args, local, bufLen, nodeReading, eof, errors,
                   inflight, inHandler, listening, immediates, escaped, emitted,
                   fetchLog, handlerLog>>
    /\ UNCHANGED api
    /\ Listeners(<<>>, TRUE)

Next ==
    \/ ConsumerEnd
    \/ NodeRead
    \/ DeferredRead
    \/ HandlerStart
    \/ EmitStep
    \/ HandlerFinish
    \/ Drain
    \/ AutoDestroy

Spec == Init /\ [][Next]_vars

\* The scheduling the engine relies on: a fetch in flight invokes its handler
\* and a handler, once entered, runs to its end; a callback handed to
\* setImmediate runs; the consumer keeps taking buffered items and keeps
\* asking for more while the buffer is below the high-water mark.
Fairness ==
    /\ WF_vars(HandlerStart)
    /\ WF_vars(EmitStep)
    /\ WF_vars(HandlerFinish)
    /\ WF_vars(DeferredRead)
    /\ WF_vars(Drain)
    /\ WF_vars(NodeRead)

FairSpec == Spec /\ Fairness

\* run_ with autoPaginate: the engine is built by runAsStream_ and consumed by
\* the listeners of run_ alone; nobody else holds the stream, so nobody calls
\* its end().
AggInit ==
    /\ EngineInit
    /\ mode \in AggModes
    /\ collected = <<>>
    /\ completions = <<>>
    /\ ApiIdle

AggNext ==
    \/ NodeRead
    \/ DeferredRead
    \/ HandlerStart
    \/ EmitStep
    \/ HandlerFinish
    \/ Drain
    \/ AutoDestroy

AggSpec == AggInit /\ [][AggNext]_vars

\* ------------------------------------------------- parseArguments_
IsCallable(v) == v.kind = "function"
FirstArg(a) == IF Len(a) = 0 THEN Undefined ELSE a[1]
LastArg(a) == IF Len(a) = 0 THEN Undefined ELSE a[Len(a)]

\* a parser that takes the first argument for the query as it is
QueryAsGiven(first) == IF IsCallable(first) THEN Object(NoKeys) ELSE first

\* The query before the options are taken out of it: empty for a callable or
\* undefined first argument, the first argument otherwise (also a primitive).
QueryOf(first) ==
    IF IsCallable(first) \/ first = Undefined THEN Object(NoKeys) ELSE first

\* The callback: a callable last argument, else a callable first argument.
CallbackOf(a) ==
    IF IsCallable(LastArg(a)) THEN LastArg(a)
    ELSE IF IsCallable(FirstArg(a)) THEN FirstArg(a)
    ELSE Undefined

\* maxApiCalls of the query, -1 without it
MaxApiCallsOf(k) == IF k.maxApiCalls # <<>> THEN k.maxApiCalls[1] ELSE -1

\* maxResults of the query, else its pageSize, -1 without both
MaxResultsOf(k) ==
    IF k.maxResults # <<>> THEN k.maxResults[1]
    ELSE IF k.pageSize # <<>> THEN k.pageSize[1]
    ELSE -1

\* a parser for which a results cap always switches auto-pagination off
AutoPaginateCapWins(k) ==
    IF MaxResultsOf(k) # -1 THEN FALSE
    ELSE IF k.autoPaginate # <<>> THEN k.autoPaginate[1]
    ELSE TRUE

\* autoPaginate: the explicit value of the query; without one, false exactly
\* when maxResults ended up set.
AutoPaginateOf(k) ==
    IF k.autoPaginate # <<>> THEN k.autoPaginate[1] ELSE MaxResultsOf(k) = -1

\* a parser that leaves pageSize in the query when maxResults is there too
RemainingKeepsPageSize(k) ==
    [maxApiCalls |-> <<>>,
     maxResults |-> <<>>,
     pageSize |-> IF k.maxResults # <<>> THEN k.pageSize ELSE <<>>,
     autoPaginate |-> <<>>,
     highWaterMark |-> <<>>,
     other |-> k.other]

\* The query without the options the parser takes out of it: maxApiCalls,
\* maxResults, pageSize, autoPaginate and highWaterMark.
Remaining(k) ==
    [maxApiCalls |-> <<>>,
     maxResults |-> <<>>,
     pageSize |-> <<>>,
     autoPaginate |-> <<>>,
     highWaterMark |-> <<>>,
     other |-> k.other]

\* streamOptions: the stream-tuning keys of the query
StreamOptionsOf(k) == [NoKeys EXCEPT !.highWaterMark = k.highWaterMark]

parseArguments_(a) ==
    LET q == QueryOf(FirstArg(a))
        k == q.keys
    IN  [parsed |-> TRUE,
         query |-> IF q.kind = "object" THEN Object(Remaining(k)) ELSE q,
         autoPaginate |-> AutoPaginateOf(k),
         maxApiCalls |-> MaxApiCallsOf(k),
         maxResults |-> MaxResultsOf(k),
         callback |-> CallbackOf(a),
         streamOptions |-> StreamOptionsOf(k)]

\* a parser that deletes the options from the mapping the caller passed
ArgsStripped(a) ==
    IF Len(a) > 0 /\ a[1].kind = "object"
    THEN [a EXCEPT ![1] = Object(Remaining(a[1].keys))]
    ELSE a

\* The caller's argument list after the call: the parser takes the options out
\* of a copy of the query, the mapping the caller passed keeps its keys.
ArgsAfterParse(a) == a

\* ------------------------------------------------------------- run_
\* what the original method may return to run_
FetchReturns == {Undefined, [kind |-> "promise", id |-> 1, keys |-> NoKeys]}

\* a run_ that builds an engine whatever the descriptor says
BuildsEngineAlways(d) == TRUE

\* run_ builds an engine unless the descriptor says autoPaginate: false
BuildsEngine(d) == d.autoPaginate

\* ------------------------------------------------- extend, streamify
\* extend(Class, name): the method found under name is stored under name_ and
\* the paginating function takes its place.
ExtendClass(p) == [name |-> Replacement, alias |-> p.name]

\* a streamified method that looks the original up under name only
StreamifyTargetByName(p) == p.name

\* The method a streamified method hands on as the fetch operation: the
\* private member name_ when there is one, the method under name otherwise.
StreamifyTarget(p) == IF p.alias # Absent THEN p.alias ELSE p.name

\* The method the function put in place by extend() hands on: the original.
ExtendTarget(p) == p.alias

\* a streamified method that goes through run_ like a paginated one
RunsAsStreamNever(e) == FALSE

\* A streamified method calls runAsStream_ itself, whatever was parsed.
RunsAsStream(e) == e = "streamified"

\* extend() is applied to the method, once, before anybody calls it.
Extend ==
    /\ parsed = NotParsed
    /\ proto.name # Replacement
    /\ proto' = ExtendClass(proto)
    /\ UNCHANGED <<callArgs, parsed, ran, manualCalls, manualDone, engines,
                   returned, entry, receiver, fetchOp>>
    /\ UNCHANGED <<engine, args, local, node, inflight, inHandler, listening,
                   immediates, escaped, emitted, fetchLog, handlerLog, agg>>

\* The caller calls the method (the paginating function once extend() has put
\* it in place, or the streamified one): its arguments are parsed.
Parse ==
    /\ parsed = NotParsed
    /\ entry = "paginated" => proto.name = Replacement
    /\ parsed' = parseArguments_(callArgs)
    /\ callArgs' = ArgsAfterParse(callArgs)
    /\ UNCHANGED <<ran, manualCalls, manualDone, engines, returned, entry, proto,
                   receiver, fetchOp>>
    /\ UNCHANGED <<engine, args, local, node, inflight, inHandler, listening,
                   immediates, escaped, emitted, fetchLog, handlerLog, agg>>

\* The parsed arguments are run.  A streamified method calls runAsStream_ and
\* returns the stream.  A paginating function calls run_(parsedArguments,
\* originalMethod): with autoPaginate false one call of the original method
\* with the query and the callback, whose return value run_ returns; otherwise
\* an engine is built by runAsStream_ and run_ listens to it, returning a
\* promise when the descriptor has no callback.  The fetch operation is the
\* original method bound to the receiver of the call.
Run ==
    /\ parsed # NotParsed
    /\ ~ran
    /\ ran' = TRUE
    /\ fetchOp' = [fn |-> IF entry = "streamified"
                         THEN StreamifyTarget(proto)
                         ELSE ExtendTarget(proto),
                   this |-> receiver]
    /\ IF RunsAsStream(entry)
       THEN /\ engines' = engines + 1
            /\ returned' = StreamValue
            /\ mode' = "stream"
            /\ UNCHANGED manualCalls
       ELSE IF BuildsEngine(parsed)
       THEN /\ engines' = engines + 1
            /\ returned' = IF parsed.callback = Undefined
                           THEN PromiseValue ELSE Undefined
            /\ mode' = IF parsed.callback = Undefined
                       THEN "promise" ELSE "callback"
            /\ UNCHANGED manualCalls
       ELSE /\ \E ret \in FetchReturns :
                 /\ manualCalls' = Append(manualCalls,
                        [query |-> parsed.query, callback |-> parsed.callback,
                         ret |-> ret])
                 /\ returned' = ret
            /\ UNCHANGED <<engines, mode>>
    /\ UNCHANGED <<callArgs, parsed, manualDone, entry, proto, receiver>>
    /\ UNCHANGED <<engine, args, local, node, inflight, inHandler, listening,
                   immediates, escaped, emitted, fetchLog, handlerLog,
                   collected, completions>>

\* The original method completes a call run_ made itself: its completion goes
\* to the caller's callback, whatever next query it reports; run_ is not
\* involved any more.
ManualDone ==
    /\ Len(manualDone) < Len(manualCalls)
    /\ \E nq \in NextQueries(1) : manualDone' = Append(manualDone, nq)
    /\ UNCHANGED <<callArgs, parsed, ran, manualCalls, engines, returned, entry,
                   proto, receiver, fetchOp>>
    /\ UNCHANGED <<engine, args, local, node, inflight, inHandler, listening,
                   immediates, escaped, emitted, fetchLog, handlerLog, agg>>

\* One call of a paginated or streamified method with any of the argument
\* lists, on a class that may hold a private member under name_ already.  The
\* engine part of the state is the one of a fresh engine and stays as it is:
\* what an engine does once built is the subject of Spec and AggSpec.
ApiInit ==
    /\ EngineInit
    /\ maxApiCalls = Infinity /\ maxResults = -1 /\ hwm = 1
    /\ mode = "none"
    /\ collected = <<>>
    /\ completions = <<>>
    /\ callArgs \in ArgLists
    /\ parsed = NotParsed
    /\ ran = FALSE
    /\ manualCalls = <<>>
    /\ manualDone = <<>>
    /\ engines = 0
    /\ returned = Undefined
    /\ entry \in {"paginated", "streamified"}
    /\ proto \in {[name |-> Original, alias |-> a] : a \in {Absent, Private}}
    /\ receiver \in Receivers
    /\ fetchOp = NoFetchOp

ApiNext ==
    \/ Extend
    \/ Parse
    \/ Run
    \/ ManualDone

ApiSpec == ApiInit /\ [][ApiNext]_vars

\* =================================================================
\* Properties
\* =================================================================

\* A step is a pull when the deferred callback runs or when the readable side
\* calls _read().
IsPull == immediates' < immediates \/ (nodeReading' /\ ~nodeReading)

\* The last handler invocation reported an error.
HandlerErrorStep ==
    /\ Len(handlerLog') > Len(handlerLog)
    /\ handlerLog'[Len(handlerLog')].err # NoError

\* C1: at most one fetch is outstanding; a fetch is issued only when no fetch
\* is in flight and no handler is running; a pull that arrives while a fetch is
\* in flight or its handler is running issues no fetch and leaves the engine's
\* state as it is.
C1_OneFetchOutstanding ==
    /\ [](inflight <= 1)
    /\ [][Len(fetchLog') > Len(fetchLog) => (inflight = 0 /\ ~inHandler)]_vars
    /\ [][(inflight > 0 /\ IsPull) =>
             UNCHANGED <<engine, inflight, fetchLog, emitted>>]_vars

\* C1 witness: the readable side has called _read() from a 'data' listener
\* while the handler of the fetch in flight is still in its loop.
C1_Witness == inHandler /\ listening /\ nodeReading /\ inflight = 1

\* C2 (as claimed): with maxApiCalls = n >= 1 the fetch operation is invoked at
\* most n times.
C2_AtMostNFetches ==
    maxApiCalls # Infinity => Len(fetchLog) <= maxApiCalls

\* C3 (as claimed): once the ended flag is set no pull issues a fetch.
C3_NoFetchAfterEnded == [][ended => fetchLog' = fetchLog]_vars

\* C4: with maxResults = k >= 0 at most k items are emitted downstream, over
\* all fetches together.
C4_AtMostMaxResults == maxResults >= 0 => Len(emitted) <= maxResults

\* C4 witness: the budget is used up by items of two different pages, the
\* second of them longer than what was left of the budget.
C4_Witness ==
    /\ maxResults = MaxCap
    /\ Len(emitted) = MaxCap
    /\ emitted[1][1] # emitted[Len(emitted)][1]
    /\ Len(handlerLog[Len(handlerLog)].results) = MaxPage

\* C5: once the stream is ended nothing is emitted any more, and a handler
\* whose loop is under way pushes no further item of its page.
C5_NoEmitAfterEnd ==
    [][ended => (emitted' = emitted /\ (inHandler => idx' = idx))]_vars

\* C5 witness: the consumer ended the stream on the second item of a page of
\* three; the first two items are out and the loop is still in the handler.
C5_Witness ==
    /\ inHandler /\ ended
    /\ Len(results) = 3 /\ idx = 2
    /\ emitted = <<<<1, 1>>, <<1, 2>>>>

\* C6 (as claimed): a handler-reported error fails the stream with exactly one
\* error notification, carrying that error.
C6_ErrorAlwaysNotified ==
    [][HandlerErrorStep =>
          (destroyed' /\ errors' = <<handlerLog'[Len(handlerLog')].err>>)]_vars

\* C6 (amended): a handler-reported error destroys the stream with that error:
\* a stream not destroyed before delivers exactly that one error notification,
\* a stream already destroyed (it had ended and destroyed itself) delivers
\* none; no stream ever delivers two, and no item is emitted in that step or
\* after an error notification.
C6_ErrorNotifiedOnce ==
    /\ [][HandlerErrorStep =>
            /\ destroyed'
            /\ emitted' = emitted
            /\ errors' = IF destroyed
                         THEN errors
                         ELSE <<handlerLog'[Len(handlerLog')].err>>]_vars
    /\ [](Len(errors) <= 1)
    /\ [][Len(errors) > 0 => emitted' = emitted]_vars

\* C6 witness: after some items were emitted a handler reported an error, and
\* the stream is destroyed with that error as its only notification.
C6_Witness ==
    /\ Len(emitted) > 0
    /\ Len(handlerLog) > 1
    /\ handlerLog[Len(handlerLog)].err # NoError
    /\ destroyed
    /\ errors = <<handlerLog[Len(handlerLog)].err>>

\* C7 (as claimed): whenever the fetch operation raised instead of taking its
\* handler, the exception did not leave the pull and the stream is failed with
\* the thrown error on its error channel.
C7_ThrowFailsStream ==
    Len(fetchLog) > Len(handlerLog) + inflight =>
        (escaped = 0 /\ destroyed /\ errors = <<"thrown">>)

\* C8 (as claimed): after a successful handler that received no nextQuery the
\* fetch operation is never invoked again.
C8_NoFetchAfterLastPage ==
    [][(\E i \in 1..Len(handlerLog) :
           /\ handlerLog[i].err = NoError
           /\ handlerLog[i].nextQuery = NoQuery)
       => fetchLog' = fetchLog]_vars

\* C9: the first fetch gets the initial query and fetch N+1 gets the nextQuery
\* that the handler of fetch N received.
C9_CursorChain ==
    \A i \in 1..Len(fetchLog) :
        IF i = 1
        THEN fetchLog[i] = InitialQuery
        ELSE /\ i - 1 <= Len(handlerLog)
             /\ handlerLog[i - 1].err = NoError
             /\ fetchLog[i] = handlerLog[i - 1].nextQuery

\* C9 witness: three fetches were made, the second and the third with
\* different cursors.
C9_Witness ==
    /\ Len(fetchLog) >= 3
    /\ fetchLog[2] # fetchLog[3]
    /\ fetchLog[3] = Token(2)

\* C10: every emitted item is an item of a page some handler received; an item
\* at position p > 1 of its page comes right after the item at p - 1 of that
\* page, and an item at position 1 comes after items of earlier pages only.
C10_OrderedPrefixes ==
    \A k \in 1..Len(emitted) :
        LET n == emitted[k][1]
            p == emitted[k][2]
        IN /\ n \in 1..Len(handlerLog)
           /\ p \in 1..Len(handlerLog[n].results)
           /\ handlerLog[n].results[p] = emitted[k]
           /\ p > 1 => (k > 1 /\ emitted[k - 1] = <<n, p - 1>>)
           /\ (p = 1 /\ k > 1) => emitted[k - 1][1] < n

\* C10 witness: a page of three emitted in full after a page of one.
C10_Witness ==
    emitted = <<<<1, 1>>, <<2, 1>>, <<2, 2>>, <<2, 3>>>>

\* C11 (as claimed): no fetch is issued while the consumer's buffer is at or
\* above its high-water mark.
C11_NoFetchAboveHwm ==
    [][Len(fetchLog') > Len(fetchLog) => bufLen < hwm]_vars

\* The step completes a successful handler that had received an empty mapping
\* as its nextQuery.
FinishAfterEmptyQuery == requestsMade' > requestsMade /\ nextQuery = EmptyQuery

\* C18 (as claimed): a present but empty nextQuery counts as exhaustion: the
\* handler that received it ends the stream.
C18_EmptyQueryEnds == [][FinishAfterEmptyQuery => ended']_vars

\* C18 (amended): an empty mapping is a cursor like any other.  The handler
\* that received it ends the stream only when the results budget is used up or
\* the call cap is reached, and a fetch made after it is made with the empty
\* mapping as its query.
C18_EmptyQueryGoesOn ==
    /\ [][(FinishAfterEmptyQuery /\ ~ended)
            => (ended' <=> (resultsToSend < 1 \/ requestsMade' >= maxApiCalls))]_vars
    /\ [][(Len(fetchLog') > Len(fetchLog) /\ Len(handlerLog) > 0
             /\ handlerLog[Len(handlerLog)].nextQuery = EmptyQuery)
            => fetchLog'[Len(fetchLog')] = EmptyQuery]_vars

\* C18 witness: the first page came with an empty mapping as nextQuery, the
\* stream is not ended and the second fetch was made with the empty mapping.
C18_Witness ==
    /\ ~ended
    /\ Len(fetchLog) = 2
    /\ fetchLog[2] = EmptyQuery
    /\ handlerLog[1].nextQuery = EmptyQuery

\* The stream is in a terminal state: ended or failed.
Terminal == ended \/ destroyed

\* Some call of the fetch operation raised instead of taking its handler.
Thrown == Len(fetchLog) > Len(handlerLog) + inflight

\* The remote source has reported its last page.
SourceExhausted ==
    \E i \in 1..Len(handlerLog) :
        handlerLog[i].err = NoError /\ handlerLog[i].nextQuery = NoQuery

\* C12: under the fairness of FairSpec a stream with a finite maxApiCalls
\* reaches a terminal state (unless a fetch raises instead of taking its
\* handler), and so does every stream whose source reports its last page.
C12_EventuallyTerminal ==
    /\ (maxApiCalls # Infinity) ~> (Terminal \/ Thrown)
    /\ SourceExhausted ~> Terminal

\* C12 witness: a stream was ended by its call cap alone: the last page came
\* with a cursor and the results budget is not used up.
C12_Witness ==
    /\ maxApiCalls = MaxCap
    /\ requestsMade = MaxCap
    /\ ended /\ ~destroyed
    /\ Truthy(nextQuery)
    /\ resultsToSend >= 1
    /\ Len(emitted) > 0

\* --------------------------------------------- aggregating mode (AggSpec)
\* run_ completed without an error.
CleanCompletion == completions # <<>> /\ completions[1].err = NoError

\* C13: in aggregating mode a completion without an error carries every item
\* the stream emitted, in emission order, and is produced only after the
\* stream has ended.
C13_AllItemsAfterEnd ==
    CleanCompletion =>
          /\ completions[1].results = emitted
          /\ ended /\ eof /\ bufLen = 0

\* C13 witness: a clean completion whose items come from two fetches.
C13_Witness ==
    /\ CleanCompletion
    /\ Len(completions[1].results) >= 2
    /\ completions[1].results[1][1] = 1
    /\ completions[1].results[Len(completions[1].results)][1] = 2

\* A fetch of the chain failed: its handler reported an error, or the call
\* raised instead of taking its handler.
HandlerFailed == \E i \in 1..Len(handlerLog) : handlerLog[i].err # NoError
FetchFailed == HandlerFailed \/ Thrown

\* C14 (as claimed): at most one completion is produced, in the style the
\* descriptor selects, and once a fetch of the chain has failed the success
\* path does not fire.
C14_OneCompletion ==
    /\ Len(completions) <= 1
    /\ \A i \in 1..Len(completions) : completions[i].style = mode
    /\ FetchFailed => ~CleanCompletion

\* The handler invocations that reported no error, in order.
Successes == SelectSeq(handlerLog, LAMBDA h : h.err = NoError)

\* The trailing values of the last successful fetch (none before the first).
LastExtra ==
    IF Successes = <<>> THEN <<>> ELSE Successes[Len(Successes)].extra

\* C15 (as claimed): a clean completion carries, directly after the aggregated
\* results, the trailing values of the last successful fetch, unchanged.
C15_TrailingArgsForwarded ==
    CleanCompletion => completions[1].rest = LastExtra

\* C16 (as claimed): at any time the trailing args the stream has recorded are
\* the extra values of the last successful fetch.
C16_TrailingArgsRecorded == OtherArgs = LastExtra

\* ------------------------------------------- parse and run (ApiSpec)
\* C17: with autoPaginate false in the descriptor, run_ calls the original
\* method exactly once, with the descriptor's query and callback, builds no
\* engine, makes no further call whatever next query that call reports, and
\* returns what the call returned.
C17_ManualOneCall ==
    (ran /\ entry = "paginated" /\ ~parsed.autoPaginate) =>
        /\ Len(manualCalls) = 1
        /\ manualCalls[1].query = parsed.query
        /\ manualCalls[1].callback = parsed.callback
        /\ returned = manualCalls[1].ret
        /\ engines = 0
        /\ fetchLog = <<>>

\* C17 witness: a manual call that returned a value and reported a next query.
C17_Witness ==
    /\ ran /\ entry = "paginated" /\ ~parsed.autoPaginate
    /\ manualDone = <<Token(1)>>
    /\ returned # Undefined
    /\ parsed.callback # Undefined

\* parseArguments_([{maxResults: 10, highWaterMark: 8}])
ExampleArgs ==
    <<Object([NoKeys EXCEPT !.maxResults = <<MaxResultsGiven>>,
                            !.highWaterMark = <<HighWaterMarkGiven>>])>>

\* C19: autoPaginate is the explicit value of the query whenever there is one,
\* also next to maxResults; without one it is false when maxResults or pageSize
\* is given and true otherwise; the example list parses to maxResults 10,
\* streamOptions {highWaterMark: 8} and autoPaginate false.
C19_AutoPaginate ==
    parsed # NotParsed =>
        LET k == FirstArg(callArgs).keys
            capped == k.maxResults # <<>> \/ k.pageSize # <<>>
        IN  /\ k.autoPaginate # <<>> => parsed.autoPaginate = k.autoPaginate[1]
            /\ (k.autoPaginate = <<>> /\ capped) => ~parsed.autoPaginate
            /\ (k.autoPaginate = <<>> /\ ~capped) => parsed.autoPaginate
            /\ callArgs = ExampleArgs =>
                  /\ ~parsed.autoPaginate
                  /\ parsed.maxResults = MaxResultsGiven
                  /\ parsed.streamOptions.highWaterMark = <<HighWaterMarkGiven>>

\* C19 witness: an explicit autoPaginate: true next to maxResults is kept.
C19_Witness ==
    /\ parsed # NotParsed
    /\ FirstArg(callArgs).keys.maxResults # <<>>
    /\ FirstArg(callArgs).keys.autoPaginate = <<TRUE>>
    /\ parsed.autoPaginate
    /\ parsed.maxResults = MaxResultsGiven

\* C20: the parsed query is never absent: empty for a callable or undefined
\* first argument, the first argument itself when it is a primitive, a mapping
\* when it is a mapping; the callback is a callable last argument, else a
\* callable first argument, and absent when no argument is callable.
C20_QueryNeverAbsent ==
    parsed # NotParsed =>
        LET first == FirstArg(callArgs)
            last == LastArg(callArgs)
        IN  /\ parsed.query # Undefined
            /\ parsed.query.kind \in {"object", "string"}
            /\ (IsCallable(first) \/ first = Undefined)
                  => parsed.query = Object(NoKeys)
            /\ first.kind = "string" => parsed.query = first
            /\ first.kind = "object" =>
                  /\ parsed.query.kind = "object"
                  /\ parsed.query.keys.other = first.keys.other
            /\ IsCallable(last) => parsed.callback = last
            /\ (IsCallable(first) /\ ~IsCallable(last)) => parsed.callback = first
            /\ (\A i \in 1..Len(callArgs) : ~IsCallable(callArgs[i]))
                  => parsed.callback = Undefined

\* C20 witness: an undefined first argument before a callback.
C20_Witness ==
    /\ parsed # NotParsed
    /\ callArgs = <<Undefined, Fn(1)>>
    /\ parsed.query = Object(NoKeys)
    /\ parsed.callback = Fn(1)

\* C21: for a mapping query the parser moves maxApiCalls, maxResults (else
\* pageSize), autoPaginate and highWaterMark out of the query: the descriptor
\* gets maxApiCalls (default -1) and maxResults, with maxResults before
\* pageSize (default -1); none of these keys is left in the descriptor's
\* query, the other keys stay, and streamOptions holds highWaterMark only.
C21_OptionsMovedOut ==
    (parsed # NotParsed /\ FirstArg(callArgs).kind = "object") =>
        LET k == FirstArg(callArgs).keys
            q == parsed.query.keys
        IN  /\ parsed.maxApiCalls =
                  IF k.maxApiCalls = <<>> THEN -1 ELSE k.maxApiCalls[1]
            /\ parsed.maxResults =
                  IF k.maxResults # <<>> THEN k.maxResults[1]
                  ELSE IF k.pageSize # <<>> THEN k.pageSize[1]
                  ELSE -1
            /\ k.autoPaginate # <<>> => parsed.autoPaginate = k.autoPaginate[1]
            /\ q.maxApiCalls = <<>> /\ q.maxResults = <<>> /\ q.pageSize = <<>>
            /\ q.autoPaginate = <<>> /\ q.highWaterMark = <<>>
            /\ q.other = k.other
            /\ parsed.streamOptions.highWaterMark = k.highWaterMark
            /\ \A key \in DOMAIN NoKeys \ {"highWaterMark"} :
                  parsed.streamOptions[key] = <<>>

\* C21 witness: a query with maxResults, pageSize, highWaterMark and a key of
\* its own has been parsed.
C21_Witness ==
    /\ parsed # NotParsed
    /\ FirstArg(callArgs).kind = "object"
    /\ FirstArg(callArgs).keys.maxResults = <<MaxResultsGiven>>
    /\ FirstArg(callArgs).keys.pageSize = <<PageSizeGiven>>
    /\ FirstArg(callArgs).keys.highWaterMark = <<HighWaterMarkGiven>>
    /\ parsed.maxResults = MaxResultsGiven
    /\ parsed.query.keys.other = <<"b">>

\* The fields of a descriptor.
IsDescriptor(d) ==
    /\ DOMAIN d = {"parsed", "query", "autoPaginate", "maxApiCalls",
                   "maxResults", "callback", "streamOptions"}
    /\ d.autoPaginate \in BOOLEAN
    /\ d.maxApiCalls \in Int /\ d.maxResults \in Int
    /\ d.query.kind \in {"object", "string"}
    /\ d.callback.kind \in {"function", "undefined"}

\* C22: the parser is total and pure: whatever the argument list, a call that
\* is made can be parsed and gives a descriptor, and the step changes nothing
\* else; the caller's argument list, the mapping in it included, is never
\* changed.
C22_ParsePure ==
    /\ []((parsed = NotParsed /\ (entry = "paginated" => proto.name = Replacement))
            => ENABLED Parse)
    /\ [][callArgs' = callArgs]_vars
    /\ [][parsed' # parsed =>
            /\ IsDescriptor(parsed')
            /\ UNCHANGED <<engine, args, local, node, agg, ran, manualCalls,
                           manualDone, engines, returned, proto, fetchOp>>]_vars

\* C22 witness: the caller's mapping still has the key that the descriptor's
\* query has lost.
C22_Witness ==
    /\ parsed # NotParsed
    /\ FirstArg(callArgs).keys.maxApiCalls = <<MaxApiCallsGiven>>
    /\ parsed.query.keys.maxApiCalls = <<>>
    /\ parsed.maxApiCalls = MaxApiCallsGiven

\* C23: a streamified method returns the live stream whatever was parsed: it
\* builds the engine, makes no call of the original method itself, and no
\* callback is ever invoked by it.
C23_StreamifyAlwaysStreams ==
    (ran /\ entry = "streamified") =>
        /\ returned = StreamValue
        /\ engines = 1
        /\ manualCalls = <<>>
        /\ mode = "stream"
        /\ completions = <<>>

\* C23 witness: a streamified method was called with a callback last and a
\* query that asks for maxResults and autoPaginate false.
C23_Witness ==
    /\ ran /\ entry = "streamified"
    /\ parsed.callback # Undefined
    /\ ~parsed.autoPaginate
    /\ parsed.maxResults # -1
    /\ returned = StreamValue

\* C24: once extend() has replaced the method, the original is kept under the
\* private name; the fetch operation either adapter hands on is the original
\* (the private member when there is one, else the method under name), bound
\* to the receiver of the call, and never the replacement.
C24_OriginalIsFetchOperation ==
    /\ proto.name = Replacement => proto.alias = Original
    /\ ran =>
        /\ fetchOp.this = receiver
        /\ fetchOp.fn # Replacement
        /\ fetchOp.fn = IF proto.alias # Absent THEN proto.alias ELSE proto.name

\* C24 witness: a streamified method was called on a class whose method
\* extend() had replaced.
C24_Witness ==
    /\ ran /\ entry = "streamified"
    /\ proto.name = Replacement
    /\ fetchOp = [fn |-> Original, this |-> "obj2"]

\* ------------------------------------------- handler completion (Spec)

\* The step is the last line of a successful handler: the only step that
\* counts a request.
FinishStep == requestsMade' > requestsMade

\* C25: the completion of a successful handler of a stream that is not yet
\* ended ends it exactly when the handler received no nextQuery, or the
\* results budget is below 1, or the request counter, after its increment, has
\* reached maxApiCalls.  The stream that is ended reaches EOF in the same step.
C25_EndsIffFinishedOrCapped ==
    [][(FinishStep /\ ~ended)
         => /\ ended' <=> \/ nextQuery = NoQuery
                          \/ resultsToSend < 1
                          \/ requestsMade' >= maxApiCalls
            /\ ended' => eof']_vars

\* C25 witness: a first handler has completed with a cursor, one result left
\* to send and one call left to make, and the stream is not ended.
C25_Witness ==
    /\ ~ended
    /\ ~inHandler
    /\ requestsMade = 1
    /\ maxApiCalls = 2
    /\ maxResults = 2
    /\ resultsToSend = 1
    /\ nextQuery = Token(1)

\* The completion of a successful handler schedules a deferred pull exactly
\* when the stream is not ended and the handler's last push asked for more
\* (a handler that pushed nothing starts from more = true).
FollowUpIffWanted ==
    [][FinishStep => /\ immediates' \in {immediates, immediates + 1}
                     /\ immediates' = immediates + 1 <=> (~ended' /\ more)]_vars

\* The scheduled pull runs on a later tick: the handler issues no fetch
\* itself and no deferred pull runs while a handler is on the stack.
FollowUpDeferred ==
    [][/\ inHandler => fetchLog' = fetchLog
       /\ immediates' < immediates => ~inHandler]_vars

\* After a handler whose last push found the buffer full, a stream that is
\* not ended issues a fetch only once the consumer has drained the buffer
\* below its high-water mark.
IdleWhileFull ==
    [][(Len(fetchLog') > Len(fetchLog) /\ ~more /\ ~ended) => bufLen < hwm]_vars

\* C26 (as claimed): a follow-up pull is scheduled exactly when the stream is
\* not ended and the last push reported a buffer that is not full, it runs on
\* a later tick, and with a full buffer the engine stays idle until the
\* consumer drains.
C26_FollowUpOrIdle == FollowUpIffWanted /\ FollowUpDeferred /\ IdleWhileFull

\* C27 (as claimed): the reading flag is true only while a fetch is
\* outstanding, and every handler invocation, successful or not, leaves it
\* cleared.
C27_ReadingOnlyWhileOutstanding ==
    /\ [](reading => inflight > 0)
    /\ [][(FinishStep \/ HandlerErrorStep) => ~reading']_vars

\* C27 (amended): the reading flag is set when a fetch is issued and stays set
\* while the fetch is outstanding; the completion of a successful handler
\* clears it.  A handler invoked with an error returns before that line and
\* leaves the flag set, as does a fetch operation that raises: the flag is
\* true only while a fetch is outstanding or after a fetch has failed.
C27_ReadingUntilSuccess ==
    /\ [](reading => (inflight > 0 \/ FetchFailed))
    /\ [](inflight > 0 => reading)
    /\ [][Len(fetchLog') > Len(fetchLog) => (~reading /\ reading')]_vars
    /\ [][FinishStep => (reading /\ ~reading')]_vars
    /\ [][HandlerErrorStep => (reading /\ reading')]_vars

\* C27 witness: after a successful handler, which cleared the flag, a second
\* fetch was issued and its handler was invoked with an error: no fetch is
\* outstanding and the flag is still set.
C27_Witness ==
    /\ Len(handlerLog) = 2
    /\ handlerLog[1].err = NoError
    /\ handlerLog[2].err # NoError
    /\ ~Thrown
    /\ inflight = 0
    /\ reading

\* The pages the handlers have received so far, one after the other.
RECURSIVE Concatenated(_)
Concatenated(log) ==
    IF log = <<>> THEN <<>>
    ELSE Concatenated(SubSeq(log, 1, Len(log) - 1)) \o log[Len(log)].results

\* Between handlers the items delivered are the first min(k, total) items of
\* the pages received.
FirstOfPages ==
    (maxResults >= 0 /\ ~inHandler /\ ~FetchFailed)
        => emitted = SubSeq(Concatenated(handlerLog), 1,
                            Min(maxResults, Len(Concatenated(handlerLog))))

\* After a handler has completed, a fetch is issued only with a budget left.
NoFetchOnEmptyBudget ==
    [][(Len(fetchLog') > Len(fetchLog) /\ maxResults >= 0 /\ requestsMade > 0)
         => resultsToSend >= 1]_vars

\* C28 (as claimed): with a finite maxResults = k and a consumer that never
\* ends the stream, the items delivered are the first min(k, total) items of
\* the concatenated pages, and once the budget is used up the stream is ended
\* and no further fetch is issued.
C28_ExactlyFirstK ==
    /\ []FirstOfPages
    /\ [][(FinishStep /\ maxResults >= 0 /\ resultsToSend < 1) => ended']_vars
    /\ NoFetchOnEmptyBudget

\* ------------------------------------------------- the error path (Spec)

\* C29: a handler invoked with an error returns with the cursor, the results
\* budget and the request counter as they were, pushes nothing and does not
\* enter the loop; no item of a page that came with an error is ever emitted.
C29_ErrorLeavesEngine ==
    /\ [][HandlerErrorStep
            => /\ UNCHANGED <<nextQuery, resultsToSend, requestsMade, emitted>>
               /\ ~inHandler']_vars
    /\ [](\A k \in 1..Len(emitted) : handlerLog[emitted[k][1]].err = NoError)

\* C29 witness: the second handler was invoked with an error, a page of three
\* and a new cursor; the engine still holds the cursor, the budget and the
\* count of the first handler and only the first page's item was emitted.
C29_Witness ==
    /\ Len(handlerLog) = 2
    /\ handlerLog[2].err # NoError
    /\ Len(handlerLog[2].results) = 3
    /\ handlerLog[2].nextQuery = Token(2)
    /\ nextQuery = Token(1)
    /\ maxResults = 2
    /\ resultsToSend = 1
    /\ requestsMade = 1
    /\ emitted = <<<<1, 1>>>>
    /\ ~inHandler

\* C30: once a handler has been invoked with an error no fetch is issued any
\* more, whichever pull comes: the readable side's or a deferred one
\* scheduled by an earlier handler.
C30_NoRetryAfterError ==
    [][HandlerFailed => fetchLog' = fetchLog]_vars

\* C30 witness: the second fetch has failed in its handler while the deferred
\* pull scheduled by the first handler is still to run, with the buffer empty.
C30_Witness ==
    /\ HandlerFailed
    /\ ~Thrown
    /\ Len(fetchLog) = 2
    /\ inflight = 0
    /\ immediates = 1
    /\ bufLen = 0
    /\ ~ended

\* --------------------------------------------- the engine's fields (Spec)

\* C31: the ended flag starts false and no step takes it from true back to
\* false, whoever calls end() and however often.
C31_EndedMonotonic == ~ended /\ [][ended => ended']_vars

\* C31 witness: end() has been called twice: by the consumer from the 'data'
\* listener of the first item of a page of three, and by the handler, which
\* had received no nextQuery, after its loop.
C31_Witness ==
    /\ ended
    /\ ~destroyed
    /\ ~inHandler
    /\ requestsMade = 1
    /\ nextQuery = NoQuery
    /\ maxResults = -1
    /\ Len(results) = 3
    /\ Len(emitted) = 1

\* C32: with a finite maxResults = k the results budget starts at k, no step
\* raises it, it is never negative, and the items emitted so far number at
\* most k minus the budget left.
C32_BudgetBounds ==
    /\ maxResults >= 0 => resultsToSend = maxResults
    /\ [][maxResults >= 0 => resultsToSend' <= resultsToSend]_vars
    /\ [](maxResults >= 0 => /\ resultsToSend >= 0
                             /\ Len(emitted) <= maxResults - resultsToSend)

\* C32 witness: the second handler has charged the budget down to 0 for a
\* truncated page and the item it pays for is not pushed yet.
C32_Witness ==
    /\ maxResults = 2
    /\ resultsToSend = 0
    /\ inHandler
    /\ Len(handlerLog) = 2
    /\ Len(handlerLog[2].results) = 3
    /\ Len(results) = 1
    /\ Len(emitted) = 1

\* The step is the start of a successful handler.
HandlerSuccessStep ==
    /\ Len(handlerLog') > Len(handlerLog)
    /\ handlerLog'[Len(handlerLog')].err = NoError

\* The step is the completion of a handler that ends a stream not yet ended.
EngineEndStep == FinishStep /\ ~ended /\ ended'

\* C33: with maxResults = -1 the handler keeps every page whole and the budget
\* never ends the stream; with maxApiCalls = -1 the call count never ends it;
\* with both at -1 the engine ends the stream only in a handler that received
\* no nextQuery (any other end is the consumer's, and an error destroys the
\* stream without ending it).
C33_MinusOneIsUnbounded ==
    /\ [](maxResults = -1 => resultsToSend = Infinity)
    /\ [][(HandlerSuccessStep /\ maxResults = -1)
            => results' = handlerLog'[Len(handlerLog')].results]_vars
    /\ [][(EngineEndStep /\ maxResults = -1)
            => (nextQuery = NoQuery \/ requestsMade' >= maxApiCalls)]_vars
    /\ [][(EngineEndStep /\ maxApiCalls = Infinity)
            => (nextQuery = NoQuery \/ resultsToSend < 1)]_vars
    /\ [][(EngineEndStep /\ maxResults = -1 /\ maxApiCalls = Infinity)
            => nextQuery = NoQuery]_vars
    /\ [][(ended' /\ ~ended /\ ~FinishStep)
            => UNCHANGED <<maxApiCalls, nextQuery, reading, requestsMade,
                           resultsToSend, fetchLog, handlerLog>>]_vars
    /\ [][HandlerErrorStep => ended' = ended]_vars

\* C33 witness: with both caps at -1 three handlers have completed, each with
\* a nextQuery, two pages of three were emitted whole, and the stream is
\* neither ended nor failed.
C33_Witness ==
    /\ maxResults = -1
    /\ maxApiCalls = Infinity
    /\ requestsMade = 3
    /\ Len(emitted) >= 6
    /\ ~ended
    /\ ~destroyed

\* --------------------------------------------------- progress (FairSpec)

\* The last handler invocation, if there was one.
LastHandler == handlerLog[Len(handlerLog)]

\* The last handler succeeded with an empty page and a nextQuery, it has
\* completed without ending the stream, and n fetches were issued so far: none
\* since that handler.
AfterEmptyPage(n) ==
    /\ Len(fetchLog) = n
    /\ Len(handlerLog) > 0
    /\ LastHandler.err = NoError
    /\ LastHandler.results = <<>>
    /\ LastHandler.nextQuery # NoQuery
    /\ ~inHandler
    /\ ~reading
    /\ ~ended

\* C34: a successful handler that received no items and a nextQuery, and that
\* does not end the stream, schedules a deferred pull and leaves that
\* nextQuery as the cursor; every fetch is issued with the cursor; and under
\* the fairness of FairSpec the next fetch is eventually issued.
C34_EmptyPageGoesOn ==
    /\ [][(FinishStep /\ LastHandler.results = <<>> /\ ~ended')
            => /\ immediates' = immediates + 1
               /\ nextQuery' = LastHandler.nextQuery]_vars
    /\ [][Len(fetchLog') > Len(fetchLog)
            => fetchLog'[Len(fetchLog')] = nextQuery]_vars
    /\ \A n \in 1..(MaxFetches - 1) :
           AfterEmptyPage(n) ~> (Len(fetchLog) > n)

\* C34 witness: the first page was empty and came with a cursor, nothing was
\* emitted, and the second fetch has been issued with that cursor.
C34_Witness ==
    /\ Len(handlerLog) = 1
    /\ handlerLog[1].err = NoError
    /\ handlerLog[1].results = <<>>
    /\ handlerLog[1].nextQuery = Token(1)
    /\ fetchLog = <<InitialQuery, Token(1)>>
    /\ emitted = <<>>
    /\ ~ended

\* The stream is neither ended nor failed, no fetch is outstanding and n
\* fetches were issued so far.
Idle(n) ==
    /\ Len(fetchLog) = n
    /\ ~Terminal
    /\ inflight = 0
    /\ ~inHandler

\* C35 (as claimed): under the fairness of FairSpec a stream that is neither
\* ended nor failed and has no fetch outstanding eventually issues another
\* fetch, unless it is ended or fails first.
C35_NoLostWakeUp ==
    \A n \in 0..(MaxFetches - 1) : Idle(n) ~> (Len(fetchLog) > n \/ Terminal)

\* The number of handler invocations that have run to their end, and the
\* number of those that were invoked without an error.
Completed == Len(handlerLog) - (IF inHandler THEN 1 ELSE 0)
CompletedWithoutError == Len(Successes) - (IF inHandler THEN 1 ELSE 0)

\* C36: the request counter is the number of handlers that completed without
\* an error, no step lowers it, and the fetches issued outnumber the completed
\* handlers by one at most.
C36_RequestsCounted ==
    /\ [](requestsMade = CompletedWithoutError)
    /\ [][requestsMade' >= requestsMade]_vars
    /\ [](Len(fetchLog) - Completed \in {0, 1})

\* C36 witness: three fetches were issued; two handlers completed without an
\* error and were counted, the third was invoked with an error and was not.
C36_Witness ==
    /\ Len(fetchLog) = 3
    /\ Len(handlerLog) = 3
    /\ handlerLog[3].err # NoError
    /\ requestsMade = 2
    /\ inflight = 0

\* ------------------------------------------- terminal outcomes (Spec)

\* The stream has reached EOF by an end() call: the consumer's or the
\* engine's.
EndedCleanly == ended /\ eof

\* The stream has consumed its buffer after EOF, delivered 'end' and destroyed
\* itself: the only way to be destroyed without an error notification.
EndDelivered == destroyed /\ errors = <<>>

\* C37 (as claimed): on a stream that has ended, a handler invoked with an
\* error neither fails the stream nor delivers an error notification; no
\* stream has both ended cleanly and reported an error.
C37_EndedStaysClean ==
    /\ [][(HandlerErrorStep /\ ended)
            => (errors' = errors /\ destroyed' = destroyed)]_vars
    /\ [](EndedCleanly => errors = <<>>)

\* C37 (amended): a stream delivers one terminal notification at most, 'end'
\* or 'error'.  Once 'end' is delivered, the error of a fetch still in flight
\* is dropped; between end() and the delivery of 'end' such an error fails the
\* ended stream and is delivered, and 'end' never is.
C37_OneTerminalNotification ==
    /\ [][(HandlerErrorStep /\ ended)
            => /\ ended' /\ destroyed'
               /\ errors' = IF destroyed
                            THEN errors
                            ELSE <<handlerLog'[Len(handlerLog')].err>>]_vars
    /\ [][EndDelivered => EndDelivered']_vars
    /\ [](errors # <<>> => (destroyed /\ Len(errors) = 1))

\* C37 witness: with no cap and a cursor held, the consumer ended the stream
\* while the second fetch was in flight; its handler was invoked with an error
\* before 'end' was delivered, and the ended stream has reported that error.
C37_Witness ==
    /\ EndedCleanly
    /\ maxApiCalls = Infinity
    /\ maxResults = -1
    /\ nextQuery = Token(1)
    /\ Len(handlerLog) = 2
    /\ handlerLog[2].err # NoError
    /\ errors = <<handlerLog[2].err>>
    /\ Len(emitted) > 0

====
